---- MODULE Spec2Model ----
(***************************************************************************)
(* Crawl-state core of LibreCrawl: LinkManager (src/core/link_manager.py)   *)
(* and SitemapParser (src/core/sitemap_parser.py).                         *)
(* Worker threads call the public methods of one shared LinkManager; every *)
(* `with self.<lock>:` block is a critical section of that lock.           *)
(* discover_sitemaps is one sequential call with its recursion made a      *)
(* stack of _parse_sitemap calls.                                          *)
(***************************************************************************)
EXTENDS Integers, Sequences, FiniteSets, TLC

\* ------------------------------------------------------------------ bounds
MaxOps == 3        \* calls started in one behaviour of the frontier operations
MaxGraphOps == 2   \* calls started in one behaviour of the link-graph operations
MaxAllOps == 2     \* calls started in one behaviour of all operations together
MaxLinks == 2      \* <a href> elements found in one soup
MaxDepth == 1      \* depth arguments range over 0..MaxDepth
MaxStatusOps == 2  \* calls started in one behaviour of the status operations

Threads == {"w1", "w2"}
Depths == 0 .. MaxDepth

\* ------------------------------------------------------- values and inputs
Free == "free"              \* a threading.Lock nobody holds
NoStatus == 0               \* Python None in target_status
NoDepth == -1
NoEdge == [source_url |-> "", target_url |-> ""]

\* Canonical URLs handed to add_url / mark_visited / get_source_pages and
\* used as the page a soup was fetched from.
URLs == {"http://h/a", "http://h/b?q"}

\* href attribute values of <a> elements, given by what urljoin/urlparse
\* make of them on a page of http://h: site-relative references with an
\* optional query and fragment, and the kinds the loops skip.
UrlHrefs ==
  { [kind |-> "url", path |-> "/a", query |-> "", fragment |-> ""],
    [kind |-> "url", path |-> "/a", query |-> "", fragment |-> "top"],
    [kind |-> "url", path |-> "/b", query |-> "q", fragment |-> ""] }
SkipHrefs ==
  { [kind |-> k, path |-> "", query |-> "", fragment |-> ""] :
      k \in {"empty", "fragment", "mailto", "tel"} }
Hrefs == UrlHrefs \cup SkipHrefs

\* Link elements: href, text of the element, tags of its ancestors (parent
\* first).
LinkNodes ==
  { [text |-> "A", anc |-> <<"li", "nav", "body">>],
    [text |-> "", anc |-> <<"div", "body", "html">>] }
PlainNode == [text |-> "A", anc |-> <<"li", "nav", "body">>]
LinkElemsOf(hrefs, nodes) ==
  { [href |-> h, text |-> x.text, anc |-> x.anc] : h \in hrefs, x \in nodes }

\* pages and references whose canonical URLs contain the character '|':
\* urljoin keeps a '|' of the path as it is
KeyPages == {"http://h/p", "http://h/p|http://h/q"}
KeyHrefs ==
  { [kind |-> "url", path |-> "/q|http://h/r", query |-> "", fragment |-> ""],
    [kind |-> "url", path |-> "/r", query |-> "", fragment |-> ""],
    [kind |-> "empty", path |-> "", query |-> "", fragment |-> ""] }
KeyUrls == KeyPages \cup {"http://h/q|http://h/r", "http://h/r"}

\* crawl_results collections handed to collect_all_links /
\* update_link_statuses.
CrawlResultSets ==
  { <<>>, << [url |-> "http://h/a", status_code |-> 200] >> }

\* crawl_results collections of a status run: empty, one result, results for
\* another url, and the same url fetched twice with different status codes
Result(u, code) == [url |-> u, status_code |-> code]
ResultCollections ==
  { <<>>,
    << Result("http://h/a", 200) >>,
    << Result("http://h/b?q", 404) >>,
    << Result("http://h/a", 200), Result("http://h/a", 404) >>,
    << Result("http://h/b?q", 200), Result("http://h/a", 404) >> }

\* --------------------------------------------------------- pure functions
InSeq(x, s) == \E i \in 1 .. Len(s) : s[i] = x

SeqToSet(s) == { s[i] : i \in 1 .. Len(s) }

\* not href or href.startswith('#') or mailto: or tel:
SkippedHref(href) == href.kind \in {"empty", "fragment", "mailto", "tel"}

\* urlparse(urljoin(page, href)) for a site-relative href: scheme and
\* netloc of the page, path/query/fragment of the reference.
UrlJoinParse(page, href) ==
  [scheme |-> "http", netloc |-> "h", path |-> href.path,
   query |-> href.query, fragment |-> href.fragment]

\* f"{scheme}://{netloc}{path}" plus "?query" when there is one; the
\* fragment is dropped.
CleanUrl(parsed) ==
  LET base == parsed.scheme \o "://" \o parsed.netloc \o parsed.path
  IN  IF parsed.query # "" THEN base \o "?" \o parsed.query ELSE base

EmptyMap == [u \in {} |-> <<>>]

\* --------------------------------------- domain classification (219-232)
\* A netloc or base domain is the sequence of its characters; None is the
\* base domain that was never configured.
None == <<"None">>
Www == <<"w", "w", "w", ".">>
Netlocs ==
  { <<>>, <<"e">>, <<"E">>, <<"x">>, Www, Www \o <<"e">>,
    <<"W", "W", "W", ".", "E">>, Www \o Www \o <<"e">>,
    <<"w", "w", "w", "e">>, <<"e", ":", "8">> }
BaseDomains == Netlocs \cup {None}

\* str.lower() on the characters in use
LowerChar(c) == IF c = "W" THEN "w" ELSE IF c = "E" THEN "e" ELSE c
Lower(str) == [i \in DOMAIN str |-> LowerChar(str[i])]

\* str.startswith('www.')
StartsWithWww(str) == Len(str) >= Len(Www) /\ SubSeq(str, 1, Len(Www)) = Www

\* domain[4:] if domain.startswith('www.') else domain
DomainClean(domain) ==
  IF StartsWithWww(domain) THEN SubSeq(domain, 5, Len(domain)) ELSE domain

\* self.base_domain.lower() if self.base_domain else ''
BaseLower(base) == IF base = None \/ base = <<>> THEN <<>> ELSE Lower(base)

\* Python's `a and b and a == b`: the first falsy operand, which is an empty
\* str, else the bool of the comparison
AndChain(a, b) ==
  IF a = <<>> \/ b = <<>> THEN "''" ELSE IF a = b THEN "True" ELSE "False"

IsInternal_NoEmptyTest(netloc, base) ==
  IF DomainClean(Lower(netloc)) = DomainClean(BaseLower(base)) THEN "True" ELSE "False"

\* is_internal(url), on the netloc urlparse gives for url
IsInternal(netloc, base) ==
  AndChain(DomainClean(Lower(netloc)), DomainClean(BaseLower(base)))

\* the is_internal field collect_all_links computes for an edge (lines 83-93)
EdgeIsInternal(netloc, base) ==
  LET target_domain == Lower(netloc)
      target_domain_clean == DomainClean(target_domain)
      base_domain_clean == DomainClean(BaseLower(base))
  IN  AndChain(target_domain_clean, base_domain_clean)

\* truth value of a Python object in a condition
Truthy(v) == v = "True"

\* ------------------------------------ sitemaps (src/core/sitemap_parser.py)
max_depth == 10             \* default of _parse_sitemap's max_depth

\* the site http://h: candidate sitemap URLs and what the server holds
BaseDomain == "http://h"
WellKnown ==
  << BaseDomain \o "/sitemap.xml", BaseDomain \o "/sitemap_index.xml",
     BaseDomain \o "/sitemaps.xml", BaseDomain \o "/sitemap/sitemap.xml" >>
ExtraGz == "http://h/extra.xml.gz"
SitemapUrls == SeqToSet(WellKnown) \cup {ExtraGz}

\* sitemap_url.endswith('.gz')
EndsWithGz(url) == url = ExtraGz

\* What session.get gives for a sitemap URL: it raises, or answers with a
\* status and a body; the body is gzip-compressed or not, is XML or not,
\* and as XML lists <sitemap> locs and <url> locs.
Doc(fetch, gz, xml, sitemaps, urls) ==
  [fetch |-> fetch, gz |-> gz, xml |-> xml, sitemaps |-> sitemaps, urls |-> urls]
Missing == Doc("404", FALSE, "bad", <<>>, <<>>)
Down == Doc("raises", FALSE, "bad", <<>>, <<>>)
BadXml == Doc("200", FALSE, "bad", <<>>, <<>>)
UrlSet(page) == Doc("200", FALSE, "ok", <<>>, <<page>>)
GzUrlSet(page) == Doc("200", TRUE, "ok", <<>>, <<page>>)
IndexOf(locs, page) == Doc("200", FALSE, "ok", locs, <<page>>)

\* the documents the server may hold at each sitemap URL
DocsAt(url) ==
  IF url = WellKnown[1]
  THEN { Missing, Down, BadXml, UrlSet("http://h/1"), GzUrlSet("http://h/1"),
         IndexOf(<<url>>, "http://h/1"), IndexOf(<<url, url>>, "http://h/1"),
         IndexOf(<<ExtraGz>>, "http://h/1") }
  ELSE IF url = WellKnown[2]
  THEN { Missing, UrlSet("http://h/2"), IndexOf(<<url>>, "http://h/2") }
  ELSE IF url = WellKnown[3] THEN { Missing }
  ELSE IF url = WellKnown[4] THEN { Missing, Down }
  ELSE { Missing, Down, BadXml, UrlSet("http://h/x"), GzUrlSet("http://h/x") }
Webs == { w \in [SitemapUrls -> UNION { DocsAt(u) : u \in SitemapUrls }] :
            \A u \in SitemapUrls : w[u] \in DocsAt(u) }

\* robots.txt: the fetch raises, or a status and the lines of the text, each
\* a field name and what follows its first ':'
RobotsLine(field, value) == [field |-> field, value |-> value]
RobotsTxts ==
  { [fetch |-> "raises", lines |-> <<>>],
    [fetch |-> "404", lines |-> << RobotsLine("Sitemap", ExtraGz) >>],
    [fetch |-> "200", lines |-> << RobotsLine("Disallow", "/x") >>],
    [fetch |-> "200", lines |-> << RobotsLine("Disallow", "/x"), RobotsLine("SITEMAP", ExtraGz) >>] }

\* line.lower().startswith('sitemap:')
LowerField(field) ==
  IF field \in {"Sitemap", "SITEMAP"} THEN "sitemap"
  ELSE IF field = "Disallow" THEN "disallow" ELSE field
IsSitemapLine(line) == LowerField(line.field) = "sitemap"

\* _get_sitemaps_from_robots (lines 54-71)
RECURSIVE SitemapLines(_)
SitemapLines(lines) ==
  IF lines = <<>> THEN <<>>
  ELSE (IF IsSitemapLine(Head(lines)) THEN << Head(lines).value >> ELSE <<>>)
         \o SitemapLines(Tail(lines))
GetSitemapsFromRobots(robots) ==
  IF robots.fetch = "200" THEN SitemapLines(robots.lines) ELSE <<>>

\* lines 122-133: gzip.decompress is tried on a .gz URL and its failure is
\* passed over; ET.fromstring then needs uncompressed XML
Decompressed(url, doc) == IF EndsWithGz(url) THEN [doc EXCEPT !.gz = FALSE] ELSE doc
Parses(url, doc) == ~Decompressed(url, doc).gz /\ doc.xml = "ok"

AtLimit_OneEarly(depth) == depth >= max_depth

\* line 80
AtLimit(depth) == depth > max_depth

\* a call of _parse_sitemap: its arguments, where it is, and its all_urls
Frame(url, depth) ==
  [sitemap_url |-> url, depth |-> depth, at |-> "enter", todo |-> <<>>, all_urls |-> <<>>]

\* source_pages bookkeeping: create the list, append the source if absent.
TrackSource_NoCreate(sp, target, src) ==
  IF target \notin DOMAIN sp THEN sp
  ELSE IF ~InSeq(src, sp[target]) THEN [sp EXCEPT ![target] = Append(@, src)]
  ELSE sp

TrackSource_NoDedup(sp, target, src) ==
  LET sp1 == IF target \notin DOMAIN sp
             THEN [u \in DOMAIN sp \cup {target} |->
                     IF u = target THEN <<>> ELSE sp[u]]
             ELSE sp
  IN  [sp1 EXCEPT ![target] = Append(@, src)]

TrackSource(sp, target, src) ==
  LET sp1 == IF target \notin DOMAIN sp
             THEN [u \in DOMAIN sp \cup {target} |->
                     IF u = target THEN <<>> ELSE sp[u]]
             ELSE sp
  IN  IF ~InSeq(src, sp1[target])
      THEN [sp1 EXCEPT ![target] = Append(@, src)]
      ELSE sp1

\* self.source_pages.get(url, []).copy()
SourcePagesOf(sp, url) == IF url \in DOMAIN sp THEN sp[url] ELSE <<>>

\* ------------------------------------------------------------------ state
VARIABLES
  visited_urls,          \* set()
  discovered_urls,       \* deque of (url, depth)
  all_discovered_urls,   \* set()
  source_pages,          \* dict target_url -> list of source_urls
  all_links,             \* list of link_data dicts
  links_set,             \* set of link_key strings
  urls_lock,             \* holder of self.urls_lock, or Free
  links_lock,            \* holder of self.links_lock, or Free
  pc,                    \* position of each worker
  loc,                   \* arguments and locals of each worker's call
  opsLeft,               \* calls the workers may still start
  env,                   \* what the callers pass in this run: depths, link nodes
  crawl_results,         \* the crawler's result collection handed to the link graph
  \* history of the run since the last reset of the frontier
  appended,              \* every (url, depth) appended to discovered_urls
  returned,              \* every pair get_next_url handed out
  firstPassed,           \* url -> depth of the first admit that passed the checks of lines 48-50 / 237
  winner,                \* url -> depth argument of the admit call that enqueued it
  firstRec,              \* (target, source) -> rank of its first recording among the target's sources
  \* history since the last reset of the link graph
  firstEdge,             \* (source, target) -> anchor_text, placement, link_path first recorded
  resetRaced,             \* a reset overlapped a collect_all_links call
  base_domain,           \* self.base_domain: a string as its characters, or None
  classified,            \* history: netloc and results of the last is_internal computation
  site,                  \* what http://h serves: sitemap documents and robots.txt
  sm,                    \* discover_sitemaps: position, sitemap_urls, loop index, all_urls
  stack,                 \* the calls of _parse_sitemap in progress, innermost last
  smHist                 \* history: per candidate its fetches and what it returned

frontierVars == <<visited_urls, discovered_urls, all_discovered_urls, source_pages>>
linkVars == <<all_links, links_set>>
lockVars == <<urls_lock, links_lock>>
frontierHist == <<appended, returned, firstPassed, winner, firstRec>>
linkHist == <<firstEdge>>
epochVars == <<resetRaced>>
classifierVars == <<base_domain, classified>>
sitemapVars == <<site, sm, stack, smHist>>
envVars == <<env, crawl_results, classifierVars, sitemapVars>>
vars == <<visited_urls, discovered_urls, all_discovered_urls, source_pages,
          all_links, links_set, urls_lock, links_lock, pc, loc, opsLeft,
          env, crawl_results, base_domain, classified, site, sm, stack, smHist,
          appended, returned, firstPassed, winner, firstRec, firstEdge,
          resetRaced>>

IdleLoc ==
  [op |-> "none", url |-> "", depth |-> NoDepth, n |-> 0, clean |-> "",
   link_data |-> NoEdge, results |-> <<>>, outcome |-> "", ret |-> <<>>]

Pairs == URLs \X URLs

NoMeta == [anchor_text |-> "", placement |-> "", link_path |-> ""]
MetaOf(d) == [anchor_text |-> d.anchor_text, placement |-> d.placement,
              link_path |-> d.link_path]

InitOver(universe) ==
  /\ visited_urls = {}
  /\ discovered_urls = <<>>
  /\ all_discovered_urls = {}
  /\ source_pages = EmptyMap
  /\ all_links = <<>>
  /\ links_set = {}
  /\ urls_lock = Free
  /\ links_lock = Free
  /\ pc = [t \in Threads |-> "idle"]
  /\ loc = [t \in Threads |-> IdleLoc]
  /\ appended = <<>>
  /\ returned = <<>>
  /\ firstPassed = [u \in universe |-> NoDepth]
  /\ winner = [u \in universe |-> NoDepth]
  /\ firstRec = [p \in universe \X universe |-> 0]
  /\ firstEdge = [p \in universe \X universe |-> NoMeta]
  /\ resetRaced = FALSE

NoCall == [netloc |-> None, ret |-> "", edge |-> ""]
ClassifierIdle == base_domain = <<"e">> /\ classified = NoCall

\* no discover_sitemaps call has been made
NoSite == [web |-> [u \in SitemapUrls |-> Missing],
           robots |-> [fetch |-> "404", lines |-> <<>>]]
NoDiscover == [pc |-> "idle", sitemap_urls |-> <<>>, i |-> 0, all_urls |-> <<>>]
NoSmHist == [fetches |-> <<>>, fetching |-> 0, deepest |-> 0, contrib |-> <<>>]
SitemapIdle == site = NoSite /\ sm = NoDiscover /\ stack = <<>> /\ smHist = NoSmHist

InitState == InitOver(URLs) /\ ClassifierIdle /\ SitemapIdle

\* one crawl: the workers start at most MaxOps calls between them
Init ==
  /\ InitState
  /\ opsLeft = MaxAllOps
  /\ env = [depths |-> {0}, nodes |-> {PlainNode}, pages |-> URLs, hrefs |-> Hrefs]
  /\ crawl_results \in CrawlResultSets

\* a run of the frontier operations: depths vary
InitFrontier ==
  /\ InitState
  /\ opsLeft = MaxOps
  /\ env = [depths |-> Depths, nodes |-> {PlainNode}, pages |-> URLs, hrefs |-> Hrefs]
  /\ crawl_results = <<>>

\* a run of the link-graph operations: link nodes vary
InitGraph ==
  /\ InitState
  /\ opsLeft = MaxGraphOps
  /\ env = [depths |-> {0}, nodes |-> LinkNodes, pages |-> URLs, hrefs |-> Hrefs]
  /\ crawl_results = << [url |-> "http://h/a", status_code |-> 200] >>

\* ---------------------------------------------------------------- helpers
Goto(t, label) == pc' = [pc EXCEPT ![t] = label]

Return(t) == /\ pc' = [pc EXCEPT ![t] = "idle"]
             /\ loc' = [loc EXCEPT ![t] = IdleLoc]

InCollect(t) == loc[t].op = "collect_all_links"
InReset(t) == loc[t].op = "reset"

\* history: the first time src is recorded for target gets the next rank
NoteRecording(target, src) ==
  firstRec' =
    IF firstRec[<<target, src>>] = 0
    THEN [firstRec EXCEPT ![<<target, src>>] =
            1 + Cardinality({ p \in DOMAIN firstRec : p[1] = target /\ firstRec[p] > 0 })]
    ELSE firstRec

QueueEntry_DepthLost(url, depth) == <<url, 0>>

\* the tuple (clean_url, depth) of lines 55 and 239
QueueEntry(url, depth) == <<url, depth>>

\* history of one admit call: whether it passed the checks, whether it
\* enqueued, and the tuple that went into the queue
NoteAdmit(url, depth, passed, enqueued) ==
  /\ firstPassed' = IF passed /\ firstPassed[url] = NoDepth
                    THEN [firstPassed EXCEPT ![url] = depth] ELSE firstPassed
  /\ winner' = IF enqueued /\ winner[url] = NoDepth
               THEN [winner EXCEPT ![url] = depth] ELSE winner
  /\ appended' = IF enqueued THEN Append(appended, QueueEntry(url, depth)) ELSE appended


CanCall(t) == pc[t] = "idle" /\ opsLeft > 0

\* `with self.urls_lock:` / `with self.links_lock:` entry and exit
AcquireUrls(t) == urls_lock = Free /\ urls_lock' = t /\ UNCHANGED links_lock
AcquireLinks(t) == links_lock = Free /\ links_lock' = t /\ UNCHANGED urls_lock
ReleaseUrls(t) == urls_lock' = Free /\ UNCHANGED links_lock
ReleaseLinks(t) == links_lock' = Free /\ UNCHANGED urls_lock

\* -------------------------------------------------- extract_links (22-55)
\* The soup's links are drawn one at a time as the loop reaches them: no
\* decision of the loop depends on a later link.
CallExtractLinks(t) ==
  /\ CanCall(t)
  /\ \E cur \in URLs, d \in env.depths, n \in 1 .. MaxLinks :
       loc' = [loc EXCEPT ![t] =
                 [IdleLoc EXCEPT !.op = "extract_links", !.url = cur,
                                 !.depth = d, !.n = n]]
  /\ Goto(t, "el_loop")
  /\ opsLeft' = opsLeft - 1
  /\ UNCHANGED <<frontierVars, linkVars, lockVars, envVars, frontierHist, linkHist, epochVars>>

\* for link in links: skip tests, urljoin, clean_url
ElLoop(t) ==
  /\ pc[t] = "el_loop"
  /\ \E href \in Hrefs :
       IF SkippedHref(href)
       THEN IF loc[t].n = 1 THEN Return(t)
            ELSE /\ loc' = [loc EXCEPT ![t].n = @ - 1]
                 /\ UNCHANGED pc
       ELSE /\ loc' = [loc EXCEPT ![t].clean =
                         CleanUrl(UrlJoinParse(loc[t].url, href))]
            /\ Goto(t, "el_lock")
  /\ UNCHANGED <<frontierVars, linkVars, lockVars, opsLeft, envVars, frontierHist, linkHist, epochVars>>

\* lines 48-50
ExtractAdmissible_NoDiscoveredCheck(clean, cur) ==
  /\ clean \notin visited_urls
  /\ clean # cur

ExtractAdmissible_NoVisitedCheck(clean, cur) ==
  /\ clean \notin all_discovered_urls
  /\ clean # cur

ExtractAdmissible_NoSelfCheck(clean, cur) ==
  /\ clean \notin visited_urls
  /\ clean \notin all_discovered_urls

ExtractAdmissible(clean, cur) ==
  /\ clean \notin visited_urls
  /\ clean \notin all_discovered_urls
  /\ clean # cur

ElWith_LinksLock(t) == AcquireLinks(t)

\* line 41
ElWith(t) == AcquireUrls(t)

RefusalReason(url, cur) ==
  IF url \in visited_urls THEN "visited"
  ELSE IF url \in all_discovered_urls THEN "discovered"
  ELSE IF url = cur THEN "self" ELSE "none"

\* lines 41-50: enter the lock, track the source page, test admission
ElLock(t) ==
  /\ pc[t] = "el_lock"
  /\ ElWith(t)
  /\ source_pages' = TrackSource(source_pages, loc[t].clean, loc[t].url)
  /\ NoteRecording(loc[t].clean, loc[t].url)
  /\ IF ExtractAdmissible(loc[t].clean, loc[t].url)
     THEN /\ Goto(t, "el_callback")
          /\ loc' = [loc EXCEPT ![t].outcome = "checking"]
     ELSE /\ Goto(t, "el_unlock")
          /\ loc' = [loc EXCEPT ![t].outcome = RefusalReason(loc[t].clean, loc[t].url)]
  /\ NoteAdmit(loc[t].clean, loc[t].depth,
               ExtractAdmissible(loc[t].clean, loc[t].url), FALSE)
  /\ UNCHANGED <<visited_urls, discovered_urls, all_discovered_urls, linkVars,
                 opsLeft, envVars, returned, linkHist, epochVars>>

\* lines 53-55: the caller's predicate runs inside the with block; its
\* answer is the caller's business.
ElCallback(t) ==
  /\ pc[t] = "el_callback"
  /\ \E ok \in BOOLEAN :
       /\ IF ok
          THEN /\ all_discovered_urls' = all_discovered_urls \cup {loc[t].clean}
               /\ discovered_urls' = Append(discovered_urls, QueueEntry(loc[t].clean, loc[t].depth))
          ELSE UNCHANGED <<all_discovered_urls, discovered_urls>>
       /\ NoteAdmit(loc[t].clean, loc[t].depth, FALSE, ok)
       /\ loc' = [loc EXCEPT ![t].outcome = IF ok THEN "admitted" ELSE "ineligible"]
  /\ Goto(t, "el_unlock")
  /\ UNCHANGED <<visited_urls, source_pages, linkVars, lockVars, opsLeft, envVars,
                 returned, firstRec, linkHist, epochVars>>

\* leaving the with block; next link
ElUnlock(t) ==
  /\ pc[t] = "el_unlock"
  /\ ReleaseUrls(t)
  /\ IF loc[t].n = 1 THEN Return(t)
     ELSE /\ loc' = [loc EXCEPT ![t].n = @ - 1, ![t].clean = "", ![t].outcome = ""]
          /\ Goto(t, "el_loop")
  /\ UNCHANGED <<frontierVars, linkVars, opsLeft, envVars, frontierHist, linkHist, epochVars>>

\* ------------------------------------------------------ add_url (234-239)
CallAddUrl(t) ==
  /\ CanCall(t)
  /\ \E u \in URLs, d \in env.depths :
       loc' = [loc EXCEPT ![t] =
                 [IdleLoc EXCEPT !.op = "add_url", !.url = u, !.depth = d, !.clean = u]]
  /\ Goto(t, "au_lock")
  /\ opsLeft' = opsLeft - 1
  /\ UNCHANGED <<frontierVars, linkVars, lockVars, envVars, frontierHist, linkHist, epochVars>>

AddUrlAdmissible_Always(url) == TRUE

AddUrlAdmissible_NoVisitedCheck(url) == url \notin all_discovered_urls

\* line 237
AddUrlAdmissible(url) ==
  url \notin all_discovered_urls /\ url \notin visited_urls

AuLock(t) ==
  /\ pc[t] = "au_lock"
  /\ AcquireUrls(t)
  /\ IF AddUrlAdmissible(loc[t].url)
     THEN /\ all_discovered_urls' = all_discovered_urls \cup {loc[t].url}
          /\ discovered_urls' = Append(discovered_urls, QueueEntry(loc[t].url, loc[t].depth))
          /\ loc' = [loc EXCEPT ![t].outcome = "admitted"]
     ELSE /\ UNCHANGED <<all_discovered_urls, discovered_urls>>
          /\ loc' = [loc EXCEPT ![t].outcome = RefusalReason(loc[t].url, "")]
  /\ NoteAdmit(loc[t].url, loc[t].depth,
               AddUrlAdmissible(loc[t].url), AddUrlAdmissible(loc[t].url))
  /\ Goto(t, "au_unlock")
  /\ UNCHANGED <<visited_urls, source_pages, linkVars, opsLeft, envVars, returned,
                 firstRec, linkHist, epochVars>>

AuUnlock(t) ==
  /\ pc[t] = "au_unlock"
  /\ ReleaseUrls(t)
  /\ Return(t)
  /\ UNCHANGED <<frontierVars, linkVars, opsLeft, envVars, frontierHist, linkHist, epochVars>>

\* ------------------------------------------------- mark_visited (241-244)
CallMarkVisited(t) ==
  /\ CanCall(t)
  /\ \E u \in URLs :
       loc' = [loc EXCEPT ![t] = [IdleLoc EXCEPT !.op = "mark_visited", !.url = u]]
  /\ Goto(t, "mv_lock")
  /\ opsLeft' = opsLeft - 1
  /\ UNCHANGED <<frontierVars, linkVars, lockVars, envVars, frontierHist, linkHist, epochVars>>

MvLock(t) ==
  /\ pc[t] = "mv_lock"
  /\ AcquireUrls(t)
  /\ visited_urls' = visited_urls \cup {loc[t].url}
  /\ Goto(t, "mv_unlock")
  /\ UNCHANGED <<discovered_urls, all_discovered_urls, source_pages, linkVars,
                 loc, opsLeft, envVars, frontierHist, linkHist, epochVars>>

MvUnlock(t) ==
  /\ pc[t] = "mv_unlock"
  /\ ReleaseUrls(t)
  /\ Return(t)
  /\ UNCHANGED <<frontierVars, linkVars, opsLeft, envVars, frontierHist, linkHist, epochVars>>

\* ------------------------------------------------- get_next_url (246-251)
CallGetNextUrl(t) ==
  /\ CanCall(t)
  /\ loc' = [loc EXCEPT ![t] = [IdleLoc EXCEPT !.op = "get_next_url"]]
  /\ Goto(t, "gn_lock")
  /\ opsLeft' = opsLeft - 1
  /\ UNCHANGED <<frontierVars, linkVars, lockVars, envVars, frontierHist, linkHist, epochVars>>

Leftmost_Rightmost(q) == q[Len(q)]

\* the entry popleft() hands back: the oldest one (line 250)
Leftmost(q) == Head(q)

PopLeft_Peek(q) == q

\* the deque after popleft()
PopLeft(q) == Tail(q)

\* None is the empty tuple; a pair is returned as it was queued
GnLock(t) ==
  /\ pc[t] = "gn_lock"
  /\ AcquireUrls(t)
  /\ IF discovered_urls # <<>>
     THEN /\ loc' = [loc EXCEPT ![t].ret = Leftmost(discovered_urls), ![t].outcome = "pair"]
          /\ returned' = Append(returned, Leftmost(discovered_urls))
          /\ discovered_urls' = PopLeft(discovered_urls)
     ELSE /\ loc' = [loc EXCEPT ![t].ret = <<>>, ![t].outcome = "None"]
          /\ UNCHANGED <<returned, discovered_urls>>
  /\ Goto(t, "gn_unlock")
  /\ UNCHANGED <<visited_urls, all_discovered_urls, source_pages, linkVars, opsLeft, envVars,
                 appended, firstPassed, winner, firstRec, linkHist, epochVars>>

GnUnlock(t) ==
  /\ pc[t] = "gn_unlock"
  /\ ReleaseUrls(t)
  /\ Return(t)
  /\ UNCHANGED <<frontierVars, linkVars, opsLeft, envVars, frontierHist, linkHist, epochVars>>

\* ---------------------------------------------------- get_stats (253-260)
CallGetStats(t) ==
  /\ CanCall(t)
  /\ loc' = [loc EXCEPT ![t] = [IdleLoc EXCEPT !.op = "get_stats"]]
  /\ Goto(t, "gs_lock")
  /\ opsLeft' = opsLeft - 1
  /\ UNCHANGED <<frontierVars, linkVars, lockVars, envVars, frontierHist, linkHist, epochVars>>

GsLock(t) ==
  /\ pc[t] = "gs_lock"
  /\ AcquireUrls(t)
  /\ loc' = [loc EXCEPT ![t].ret =
               [discovered |-> Cardinality(all_discovered_urls),
                visited |-> Cardinality(visited_urls),
                pending |-> Len(discovered_urls)]]
  /\ Goto(t, "gs_unlock")
  /\ UNCHANGED <<frontierVars, linkVars, opsLeft, envVars, frontierHist, linkHist, epochVars>>

GsUnlock(t) ==
  /\ pc[t] = "gs_unlock"
  /\ ReleaseUrls(t)
  /\ Return(t)
  /\ UNCHANGED <<frontierVars, linkVars, opsLeft, envVars, frontierHist, linkHist, epochVars>>

\* --------------------------------------------- get_source_pages (273-276)
CallGetSourcePages(t) ==
  /\ CanCall(t)
  /\ \E u \in URLs :
       loc' = [loc EXCEPT ![t] = [IdleLoc EXCEPT !.op = "get_source_pages", !.url = u]]
  /\ Goto(t, "gsp_lock")
  /\ opsLeft' = opsLeft - 1
  /\ UNCHANGED <<frontierVars, linkVars, lockVars, envVars, frontierHist, linkHist, epochVars>>

GspLock(t) ==
  /\ pc[t] = "gsp_lock"
  /\ AcquireUrls(t)
  /\ loc' = [loc EXCEPT ![t].ret = SourcePagesOf(source_pages, loc[t].url)]
  /\ Goto(t, "gsp_unlock")
  /\ UNCHANGED <<frontierVars, linkVars, opsLeft, envVars, frontierHist, linkHist, epochVars>>

GspUnlock(t) ==
  /\ pc[t] = "gsp_unlock"
  /\ ReleaseUrls(t)
  /\ Return(t)
  /\ UNCHANGED <<frontierVars, linkVars, opsLeft, envVars, frontierHist, linkHist, epochVars>>


\* ------------------------------------------ link placement / path (137-217)
\* Elements of the model carry no class or id attribute and have no sibling
\* of the same tag, so only the tag-name tests and the plain segments apply.
RECURSIVE DetectLinkPlacement(_)
DetectLinkPlacement(anc) ==
  IF anc = <<>> THEN "body"
  ELSE IF Head(anc) = "footer" THEN "footer"
  ELSE IF Head(anc) \in {"nav", "header"} THEN "navigation"
  ELSE DetectLinkPlacement(Tail(anc))

\* path_parts, outermost first, for the chain element, parent, ...
RECURSIVE DomPathParts(_)
DomPathParts(chain) ==
  IF chain = <<>> THEN <<>>
  ELSE IF Head(chain) = "html" THEN <<>>
  ELSE IF Head(chain) = "body" THEN <<"body">>
  ELSE DomPathParts(Tail(chain)) \o <<Head(chain)>>

RECURSIVE JoinSlash(_)
JoinSlash(parts) ==
  IF Len(parts) = 1 THEN parts[1]
  ELSE parts[1] \o "/" \o JoinSlash(Tail(parts))

GetDomPath(anc) ==
  LET parts == DomPathParts(<<"a">> \o anc)
  IN  IF parts # <<>> THEN "//" \o JoinSlash(parts) ELSE ""

\* lines 95-100: status of the first result whose url is the target
RECURSIVE TargetStatus(_, _)
TargetStatus(results, target) ==
  IF results = <<>> THEN NoStatus
  ELSE IF Head(results).url = target THEN Head(results).status_code
  ELSE TargetStatus(Tail(results), target)

\* line 265: dict comprehension, a later result for the same url overwrites
RECURSIVE StatusLookup(_)
StatusLookup(results) ==
  IF results = <<>> THEN [u \in {} |-> NoStatus]
  ELSE LET rest == StatusLookup(SubSeq(results, 1, Len(results) - 1))
           last == results[Len(results)]
       IN  [u \in DOMAIN rest \cup {last.url} |->
              IF u = last.url THEN last.status_code ELSE rest[u]]

\* line 128
LinkKey(source_url, target_url) == source_url \o "|" \o target_url

\* lines 108-117
LinkData(source_url, link, results) ==
  LET parsed == UrlJoinParse(source_url, link.href)
      clean == CleanUrl(parsed)
  IN  [source_url |-> source_url,
       target_url |-> clean,
       anchor_text |-> IF link.text # "" THEN link.text ELSE "(no text)",
       target_domain |-> parsed.netloc,
       target_status |-> TargetStatus(results, clean),
       placement |-> DetectLinkPlacement(link.anc),
       link_path |-> GetDomPath(link.anc)]

\* --------------------------------------------- collect_all_links (57-135)
CallCollectAllLinks(t) ==
  /\ CanCall(t)
  /\ \E src \in env.pages, n \in 1 .. MaxLinks :
       loc' = [loc EXCEPT ![t] =
                 [IdleLoc EXCEPT !.op = "collect_all_links", !.url = src,
                                 !.results = crawl_results, !.n = n]]
  /\ Goto(t, "cal_loop")
  /\ opsLeft' = opsLeft - 1
  /\ resetRaced' = (resetRaced \/ \E o \in Threads : InReset(o))
  /\ UNCHANGED <<frontierVars, linkVars, lockVars, envVars, frontierHist, linkHist>>

\* lines 61-117
CalLoop(t) ==
  /\ pc[t] = "cal_loop"
  /\ \E link \in LinkElemsOf(env.hrefs, env.nodes) :
       IF SkippedHref(link.href)
       THEN IF loc[t].n = 1 THEN Return(t)
            ELSE /\ loc' = [loc EXCEPT ![t].n = @ - 1]
                 /\ UNCHANGED pc
       ELSE /\ loc' = [loc EXCEPT ![t].link_data =
                         LinkData(loc[t].url, link, loc[t].results)]
            /\ Goto(t, "cal_lock_urls")
  /\ UNCHANGED <<frontierVars, linkVars, lockVars, opsLeft, envVars, frontierHist, linkHist, epochVars>>

\* lines 120-124
CalLockUrls(t) ==
  /\ pc[t] = "cal_lock_urls"
  /\ AcquireUrls(t)
  /\ source_pages' = TrackSource(source_pages, loc[t].link_data.target_url, loc[t].url)
  /\ NoteRecording(loc[t].link_data.target_url, loc[t].url)
  /\ loc' = [loc EXCEPT ![t].outcome =
               IF InSeq(loc[t].url, SourcePagesOf(source_pages, loc[t].link_data.target_url))
               THEN "known source" ELSE "new source"]
  /\ Goto(t, "cal_unlock_urls")
  /\ UNCHANGED <<visited_urls, discovered_urls, all_discovered_urls, linkVars,
                 opsLeft, envVars, appended, returned, firstPassed, winner, linkHist,
                 epochVars>>

CalExitUrls_Held(t) == UNCHANGED lockVars

\* end of the with block of line 120
CalExitUrls(t) == ReleaseUrls(t)

CalUnlockUrls(t) ==
  /\ pc[t] = "cal_unlock_urls"
  /\ CalExitUrls(t)
  /\ Goto(t, "cal_lock_links")
  /\ loc' = [loc EXCEPT ![t].outcome = ""]
  /\ UNCHANGED <<frontierVars, linkVars, opsLeft, envVars, frontierHist, linkHist, epochVars>>

EdgeIsNew_Always(link_key) == TRUE

\* line 130
EdgeIsNew(link_key) == link_key \notin links_set

\* lines 127-132
CalLockLinks(t) ==
  /\ pc[t] = "cal_lock_links"
  /\ AcquireLinks(t)
  /\ LET d == loc[t].link_data
         link_key == LinkKey(d.source_url, d.target_url)
     IN  /\ IF EdgeIsNew(link_key)
            THEN /\ links_set' = links_set \cup {link_key}
                 /\ all_links' = Append(all_links, d)
                 /\ loc' = [loc EXCEPT ![t].outcome = "appended"]
            ELSE /\ UNCHANGED linkVars
                 /\ loc' = [loc EXCEPT ![t].outcome = "duplicate"]
         /\ firstEdge' = IF firstEdge[<<d.source_url, d.target_url>>] = NoMeta
                         THEN [firstEdge EXCEPT ![<<d.source_url, d.target_url>>] = MetaOf(d)]
                         ELSE firstEdge
  /\ Goto(t, "cal_unlock_links")
  /\ UNCHANGED <<frontierVars, opsLeft, envVars, frontierHist, epochVars>>

CalUnlockLinks(t) ==
  /\ pc[t] = "cal_unlock_links"
  /\ ReleaseLinks(t)
  /\ IF loc[t].n = 1 THEN Return(t)
     ELSE /\ loc' = [loc EXCEPT ![t].n = @ - 1, ![t].link_data = NoEdge, ![t].outcome = ""]
          /\ Goto(t, "cal_loop")
  /\ UNCHANGED <<frontierVars, linkVars, opsLeft, envVars, frontierHist, linkHist, epochVars>>

\* ----------------------------------------- update_link_statuses (262-271)
CallUpdateLinkStatuses(t) ==
  /\ CanCall(t)
  /\ loc' = [loc EXCEPT ![t] =
               [IdleLoc EXCEPT !.op = "update_link_statuses", !.results = crawl_results]]
  /\ Goto(t, "uls_lock")
  /\ opsLeft' = opsLeft - 1
  /\ UNCHANGED <<frontierVars, linkVars, lockVars, envVars, frontierHist, linkHist, epochVars>>

UpdatedLinks_ClearsUnmatched(links, results) ==
  LET status_lookup == StatusLookup(results)
  IN  [i \in 1 .. Len(links) |->
         [links[i] EXCEPT !.target_status =
            IF links[i].target_url \in DOMAIN status_lookup
            THEN status_lookup[links[i].target_url] ELSE NoStatus]]

UpdatedLinks(links, results) ==
  LET status_lookup == StatusLookup(results)
  IN  [i \in 1 .. Len(links) |->
         IF links[i].target_url \in DOMAIN status_lookup
         THEN [links[i] EXCEPT !.target_status = status_lookup[links[i].target_url]]
         ELSE links[i]]

UlsLock(t) ==
  /\ pc[t] = "uls_lock"
  /\ AcquireLinks(t)
  /\ all_links' = UpdatedLinks(all_links, loc[t].results)
  /\ Goto(t, "uls_unlock")
  /\ UNCHANGED <<frontierVars, links_set, loc, opsLeft, envVars, frontierHist, linkHist, epochVars>>

UlsUnlock(t) ==
  /\ pc[t] = "uls_unlock"
  /\ ReleaseLinks(t)
  /\ Return(t)
  /\ UNCHANGED <<frontierVars, linkVars, opsLeft, envVars, frontierHist, linkHist, epochVars>>

\* -------------------------------------------------------- reset (278-288)
CallReset(t) ==
  /\ CanCall(t)
  /\ loc' = [loc EXCEPT ![t] = [IdleLoc EXCEPT !.op = "reset"]]
  /\ Goto(t, "rs_lock_urls")
  /\ opsLeft' = opsLeft - 1
  /\ resetRaced' = (resetRaced \/ \E o \in Threads : InCollect(o))
  /\ UNCHANGED <<frontierVars, linkVars, lockVars, envVars, frontierHist, linkHist>>

ClearFrontier_KeepSources ==
  /\ visited_urls' = {}
  /\ discovered_urls' = <<>>
  /\ all_discovered_urls' = {}
  /\ UNCHANGED source_pages

\* lines 281-284
ClearFrontier ==
  /\ visited_urls' = {}
  /\ discovered_urls' = <<>>
  /\ all_discovered_urls' = {}
  /\ source_pages' = EmptyMap

\* lines 287-288
ClearLinks ==
  /\ all_links' = <<>>
  /\ links_set' = {}

FrontierEmpty ==
  /\ visited_urls = {}
  /\ discovered_urls = <<>>
  /\ all_discovered_urls = {}
  /\ source_pages = EmptyMap

LinksEmpty == all_links = <<>> /\ links_set = {}

RsLockUrls(t) ==
  /\ pc[t] = "rs_lock_urls"
  /\ AcquireUrls(t)
  /\ ClearFrontier
  /\ appended' = <<>>
  /\ returned' = <<>>
  /\ firstPassed' = [u \in URLs |-> NoDepth]
  /\ winner' = [u \in URLs |-> NoDepth]
  /\ firstRec' = [p \in Pairs |-> 0]
  /\ loc' = [loc EXCEPT ![t].outcome =
               IF FrontierEmpty THEN "nothing to clear" ELSE "cleared"]
  /\ Goto(t, "rs_unlock_urls")
  /\ UNCHANGED <<linkVars, opsLeft, envVars, linkHist, resetRaced>>

RsUnlockUrls(t) ==
  /\ pc[t] = "rs_unlock_urls"
  /\ ReleaseUrls(t)
  /\ Goto(t, "rs_lock_links")
  /\ UNCHANGED <<frontierVars, linkVars, loc, opsLeft, envVars, frontierHist, linkHist, epochVars>>

RsLockLinks(t) ==
  /\ pc[t] = "rs_lock_links"
  /\ AcquireLinks(t)
  /\ ClearLinks
  /\ firstEdge' = [p \in Pairs |-> NoMeta]
  /\ loc' = [loc EXCEPT ![t].ret = IF LinksEmpty THEN <<>> ELSE <<"cleared">>]
  /\ Goto(t, "rs_unlock_links")
  /\ UNCHANGED <<frontierVars, opsLeft, envVars, frontierHist, resetRaced>>

RsUnlockLinks(t) ==
  /\ pc[t] = "rs_unlock_links"
  /\ ReleaseLinks(t)
  /\ Return(t)
  /\ UNCHANGED <<frontierVars, linkVars, opsLeft, envVars, frontierHist, linkHist, epochVars>>

\* ------------------------------------------------------------ the system
Next ==
  \E t \in Threads :
    \/ CallExtractLinks(t) \/ ElLoop(t) \/ ElLock(t) \/ ElCallback(t) \/ ElUnlock(t)
    \/ CallAddUrl(t) \/ AuLock(t) \/ AuUnlock(t)
    \/ CallMarkVisited(t) \/ MvLock(t) \/ MvUnlock(t)
    \/ CallGetNextUrl(t) \/ GnLock(t) \/ GnUnlock(t)
    \/ CallGetStats(t) \/ GsLock(t) \/ GsUnlock(t)
    \/ CallGetSourcePages(t) \/ GspLock(t) \/ GspUnlock(t)
    \/ CallCollectAllLinks(t) \/ CalLoop(t) \/ CalLockUrls(t) \/ CalUnlockUrls(t)
    \/ CalLockLinks(t) \/ CalUnlockLinks(t)
    \/ CallUpdateLinkStatuses(t) \/ UlsLock(t) \/ UlsUnlock(t)
    \/ CallReset(t) \/ RsLockUrls(t) \/ RsUnlockUrls(t) \/ RsLockLinks(t)
    \/ RsUnlockLinks(t)

Spec == Init /\ [][Next]_vars

\* the frontier operations alone
NextFrontier ==
  \E t \in Threads :
    \/ CallExtractLinks(t) \/ ElLoop(t) \/ ElLock(t) \/ ElCallback(t) \/ ElUnlock(t)
    \/ CallAddUrl(t) \/ AuLock(t) \/ AuUnlock(t)
    \/ CallMarkVisited(t) \/ MvLock(t) \/ MvUnlock(t)
    \/ CallGetNextUrl(t) \/ GnLock(t) \/ GnUnlock(t)
    \/ CallGetStats(t) \/ GsLock(t) \/ GsUnlock(t)
    \/ CallReset(t) \/ RsLockUrls(t) \/ RsUnlockUrls(t) \/ RsLockLinks(t)
    \/ RsUnlockLinks(t)

SpecFrontier == InitFrontier /\ [][NextFrontier]_vars

NextGraph ==
  \E t \in Threads :
    \/ CallExtractLinks(t) \/ ElLoop(t) \/ ElLock(t) \/ ElCallback(t) \/ ElUnlock(t)
    \/ CallGetSourcePages(t) \/ GspLock(t) \/ GspUnlock(t)
    \/ CallCollectAllLinks(t) \/ CalLoop(t) \/ CalLockUrls(t) \/ CalUnlockUrls(t)
    \/ CalLockLinks(t) \/ CalUnlockLinks(t)
    \/ CallUpdateLinkStatuses(t) \/ UlsLock(t) \/ UlsUnlock(t)
    \/ CallReset(t) \/ RsLockUrls(t) \/ RsUnlockUrls(t) \/ RsLockLinks(t)
    \/ RsUnlockLinks(t)

SpecGraph == InitGraph /\ [][NextGraph]_vars

\* --------------------------------------------------------------- key runs
\* collect_all_links over pages and references with '|' in their URLs
InitKeys ==
  /\ InitOver(KeyUrls)
  /\ ClassifierIdle
  /\ SitemapIdle
  /\ opsLeft = MaxGraphOps
  /\ env = [depths |-> {0}, nodes |-> {PlainNode}, pages |-> KeyPages, hrefs |-> KeyHrefs]
  /\ crawl_results = <<>>

NextKeys ==
  \E t \in Threads :
    \/ CallCollectAllLinks(t) \/ CalLoop(t) \/ CalLockUrls(t) \/ CalUnlockUrls(t)
    \/ CalLockLinks(t) \/ CalUnlockLinks(t)

SpecKeys == InitKeys /\ [][NextKeys]_vars

\* ----------------------------------------------------- classification runs
\* is_internal takes no lock and writes nothing: one step per call
CallIsInternal ==
  /\ \E netloc \in Netlocs :
       classified' = [netloc |-> netloc,
                      ret |-> IsInternal(netloc, base_domain),
                      edge |-> EdgeIsInternal(netloc, base_domain)]
  /\ UNCHANGED <<frontierVars, linkVars, lockVars, pc, loc, opsLeft, env, crawl_results,
                 base_domain, sitemapVars, frontierHist, linkHist, epochVars>>

InitClassifier ==
  /\ InitOver(URLs)
  /\ SitemapIdle
  /\ base_domain \in BaseDomains
  /\ classified = NoCall
  /\ opsLeft = 0
  /\ env = [depths |-> {0}, nodes |-> {PlainNode}, pages |-> URLs, hrefs |-> Hrefs]
  /\ crawl_results = <<>>

NextClassifier == CallIsInternal

SpecClassifier == InitClassifier /\ [][NextClassifier]_vars

\* ---------------------------------------------------------- sitemap runs
linkManagerVars == <<frontierVars, linkVars, lockVars, pc, loc, opsLeft, env, crawl_results,
                     classifierVars, frontierHist, linkHist, epochVars>>

\* lines 23-41: the four well-known locations, then robots.txt's declarations
DiscoverStart ==
  /\ sm.pc = "start"
  /\ sm' = [sm EXCEPT !.pc = "loop", !.i = 1,
                       !.sitemap_urls = WellKnown \o GetSitemapsFromRobots(site.robots)]
  /\ UNCHANGED <<site, stack, smHist, linkManagerVars>>

\* lines 42-44: the next candidate is parsed at depth 1
DiscoverParse ==
  /\ sm.pc = "loop"
  /\ sm.i <= Len(sm.sitemap_urls)
  /\ stack' = << Frame(sm.sitemap_urls[sm.i], 1) >>
  /\ sm' = [sm EXCEPT !.pc = "parsing"]
  /\ smHist' = [smHist EXCEPT !.fetching = 0, !.deepest = IF @ < 1 THEN 1 ELSE @]
  /\ UNCHANGED <<site, linkManagerVars>>

\* a call returns value, after n fetches of its own: to the call that made
\* it (lines 150-151) or to the loop of discover_sitemaps (lines 44-47)
ReturnValue(value, n) ==
  IF Len(stack) > 1
  THEN /\ stack' = [SubSeq(stack, 1, Len(stack) - 1) EXCEPT
                      ![Len(stack) - 1].all_urls = @ \o value]
       /\ smHist' = [smHist EXCEPT !.fetching = @ + n]
       /\ UNCHANGED sm
  ELSE /\ stack' = <<>>
       /\ sm' = [sm EXCEPT !.pc = "loop", !.i = @ + 1, !.all_urls = @ \o value]
       /\ smHist' = [smHist EXCEPT !.contrib = Append(@, value),
                                   !.fetches = Append(@, smHist.fetching + n),
                                   !.fetching = @ + n]

\* lines 80-140 of the innermost call: the depth test, the fetch, the
\* decompression and the parse
ParseEnter ==
  /\ stack # <<>>
  /\ LET top == stack[Len(stack)]
         doc == site.web[top.sitemap_url]
     IN  /\ top.at = "enter"
         /\ IF AtLimit(top.depth) THEN ReturnValue(<<>>, 0)
            ELSE IF doc.fetch = "raises"
            THEN /\ stack' = [stack EXCEPT ![Len(stack)].at = "raised"]
                 /\ smHist' = [smHist EXCEPT !.fetching = @ + 1]
                 /\ UNCHANGED sm
            ELSE IF doc.fetch # "200" \/ ~Parses(top.sitemap_url, doc)
            THEN ReturnValue(<<>>, 1)
            ELSE /\ stack' = [stack EXCEPT ![Len(stack)].at = "nested",
                                           ![Len(stack)].todo = doc.sitemaps]
                 /\ smHist' = [smHist EXCEPT !.fetching = @ + 1]
                 /\ UNCHANGED sm
  /\ UNCHANGED <<site, linkManagerVars>>

ParseExcept_Reraise ==
  /\ IF Len(stack) > 1
     THEN /\ stack' = [SubSeq(stack, 1, Len(stack) - 1) EXCEPT ![Len(stack) - 1].at = "raised"]
          /\ UNCHANGED <<sm, smHist>>
     ELSE /\ stack' = <<>>
          /\ sm' = [sm EXCEPT !.pc = "loop", !.i = @ + 1]
          /\ smHist' = [smHist EXCEPT !.contrib = Append(@, <<>>),
                                      !.fetches = Append(@, smHist.fetching)]

\* lines 167-171: the call's own handler turns the exception into []
ParseExcept == ReturnValue(<<>>, 0)

\* an exception raised inside the try block of line 83
ParseRaised ==
  /\ stack # <<>>
  /\ stack[Len(stack)].at = "raised"
  /\ ParseExcept
  /\ UNCHANGED <<site, linkManagerVars>>

\* lines 146-151: the next nested <loc> is parsed one level deeper
ParseNested ==
  /\ stack # <<>>
  /\ LET top == stack[Len(stack)]
     IN  /\ top.at = "nested"
         /\ top.todo # <<>>
         /\ stack' = Append([stack EXCEPT ![Len(stack)].todo = Tail(@)],
                            Frame(Head(top.todo), top.depth + 1))
         /\ smHist' = [smHist EXCEPT !.deepest =
                         IF top.depth + 1 > @ THEN top.depth + 1 ELSE @]
  /\ UNCHANGED <<site, sm, linkManagerVars>>

\* lines 154-165: the document's own <url> locs follow the nested ones
ParseReturn ==
  /\ stack # <<>>
  /\ LET top == stack[Len(stack)]
     IN  /\ top.at = "nested"
         /\ top.todo = <<>>
         /\ ReturnValue(top.all_urls \o site.web[top.sitemap_url].urls, 0)
  /\ UNCHANGED <<site, linkManagerVars>>

\* lines 51-52
DiscoverReturn ==
  /\ sm.pc = "loop"
  /\ sm.i > Len(sm.sitemap_urls)
  /\ sm' = [sm EXCEPT !.pc = "done"]
  /\ UNCHANGED <<site, stack, smHist, linkManagerVars>>

InitSitemap ==
  /\ InitOver(URLs)
  /\ ClassifierIdle
  /\ opsLeft = 0
  /\ env = [depths |-> {0}, nodes |-> {PlainNode}, pages |-> URLs, hrefs |-> Hrefs]
  /\ crawl_results = <<>>
  /\ \E web \in Webs, robots \in RobotsTxts : site = [web |-> web, robots |-> robots]
  /\ sm = [NoDiscover EXCEPT !.pc = "start"]
  /\ stack = <<>>
  /\ smHist = NoSmHist

NextSitemap ==
  \/ DiscoverStart \/ DiscoverParse \/ ParseEnter \/ ParseRaised \/ ParseNested
  \/ ParseReturn \/ DiscoverReturn

\* discover_sitemaps is one sequential call: it keeps running until it returns
SpecSitemap == InitSitemap /\ [][NextSitemap]_vars /\ WF_vars(NextSitemap)

\* ------------------------------------------------------------ status runs
\* the crawl loop's result collection, the argument of lines 57 and 262,
\* differs from one round of calls to the next
CallerChangesResults ==
  /\ opsLeft > 0
  /\ \A t \in Threads : pc[t] = "idle"
  /\ crawl_results' \in ResultCollections \ {crawl_results}
  /\ UNCHANGED <<frontierVars, linkVars, lockVars, pc, loc, opsLeft, env,
                 classifierVars, sitemapVars, frontierHist, linkHist, epochVars>>

InitStatus ==
  /\ InitState
  /\ opsLeft = MaxStatusOps
  /\ env = [depths |-> {0}, nodes |-> {PlainNode}, pages |-> URLs, hrefs |-> Hrefs]
  /\ crawl_results = <<>>

NextStatus ==
  \/ CallerChangesResults
  \/ \E t \in Threads :
       \/ CallCollectAllLinks(t) \/ CalLoop(t) \/ CalLockUrls(t) \/ CalUnlockUrls(t)
       \/ CalLockLinks(t) \/ CalUnlockLinks(t)
       \/ CallUpdateLinkStatuses(t) \/ UlsLock(t) \/ UlsUnlock(t)

SpecStatus == InitStatus /\ [][NextStatus]_vars

TypeOK ==
  /\ visited_urls \subseteq URLs \cup KeyUrls
  /\ all_discovered_urls \subseteq URLs \cup KeyUrls
  /\ urls_lock \in Threads \cup {Free}
  /\ links_lock \in Threads \cup {Free}
  /\ opsLeft \in Nat
  /\ crawl_results \in CrawlResultSets \cup ResultCollections


\* ================================================================ claims
EntriesFor(q, u) == { i \in DOMAIN q : q[i][1] = u }

AdmitRefusedAt(t) == pc[t] \in {"el_unlock", "au_unlock"}

\* C1 (as stated): for every URL, exactly one (url, depth) pair is ever
\* appended to discovered_urls between resets, and its depth is the depth
\* argument of the admit call that first passed the membership check under
\* urls_lock.
C1_DepthOfFirstToPassCheck ==
  \A i \in DOMAIN appended :
    /\ Cardinality(EntriesFor(appended, appended[i][1])) = 1
    /\ appended[i][2] = firstPassed[appended[i][1]]

\* C1 (amended): for every URL at most one (url, depth) pair is ever
\* appended to discovered_urls between resets, exactly one once an admit
\* call has passed every admission condition, and its depth is the depth
\* argument of the first admit call that passed the membership check under
\* urls_lock and, in extract_links, whose should_crawl_callback returned
\* true.
C1_AdmittedOnceWithWinnersDepth ==
  /\ \A u \in URLs :
       /\ Cardinality(EntriesFor(appended, u)) <= 1
       /\ (winner[u] # NoDepth) <=> (EntriesFor(appended, u) # {})
  /\ \A i \in DOMAIN appended :
       appended[i] = <<appended[i][1], winner[appended[i][1]]>>
  /\ appended = returned \o discovered_urls

\* an admit of an enqueued URL with another depth has just been refused
C1_Witness ==
  \E t \in Threads :
    /\ AdmitRefusedAt(t)
    /\ loc[t].outcome = "discovered"
    /\ Cardinality(EntriesFor(appended, loc[t].clean)) = 1
    /\ winner[loc[t].clean] # loc[t].depth

\* C2: once u is in visited_urls, no step short of a reset appends u to the
\* pending queue or adds it to all_discovered_urls.
C2_VisitedNeverAdmitted ==
  [][\A u \in URLs :
       (u \in visited_urls /\ u \in visited_urls')
         => /\ (u \in all_discovered_urls') <=> (u \in all_discovered_urls)
            /\ Cardinality(EntriesFor(discovered_urls', u))
                 <= Cardinality(EntriesFor(discovered_urls, u))
            /\ Cardinality(EntriesFor(appended', u)) = Cardinality(EntriesFor(appended, u))]_vars

\* an admit of a visited, never admitted URL has just been refused
C2_Witness ==
  \E t \in Threads :
    /\ AdmitRefusedAt(t)
    /\ loc[t].outcome = "visited"
    /\ loc[t].clean \in visited_urls
    /\ loc[t].clean \notin all_discovered_urls
    /\ EntriesFor(appended, loc[t].clean) = {}

\* C3: between resets every queued entry is handed out by get_next_url at
\* most once, and no URL is handed out twice.
C3_HandedOutOnce ==
  /\ \A i, j \in DOMAIN returned : i # j => returned[i][1] # returned[j][1]
  /\ \A i \in DOMAIN returned : \A j \in DOMAIN discovered_urls :
       returned[i][1] # discovered_urls[j][1]
  /\ \A i, j \in DOMAIN discovered_urls :
       i # j => discovered_urls[i][1] # discovered_urls[j][1]

\* a URL was handed out and a later admit of it has just been refused
C3_Witness ==
  /\ returned # <<>>
  /\ \E t \in Threads :
       /\ AdmitRefusedAt(t)
       /\ loc[t].outcome = "discovered"
       /\ EntriesFor(returned, loc[t].clean) # {}


\* t's reset has cleared the frontier structures and not yet the link ones
ResetHalfDone(t) == pc[t] \in {"rs_unlock_urls", "rs_lock_links"}

\* C4 (as stated): no thread can observe a state in which a reset has
\* cleared some of the six structures and not the others: whenever both
\* locks are free while a reset has cleared the frontier structures, the
\* link structures are empty as well.
C4_ResetAtomic ==
  \A t \in Threads :
    (ResetHalfDone(t) /\ urls_lock = Free /\ links_lock = Free) => LinksEmpty

\* C4 (amended): reset() clears visited_urls, discovered_urls,
\* all_discovered_urls and source_pages together in one critical section of
\* urls_lock, and afterwards all_links and links_set together in one
\* critical section of links_lock; each group is cleared atomically for the
\* holders of its lock, the two groups are not cleared atomically together.
C4_ResetClearsEachGroupAtOnce ==
  \A t \in Threads :
    /\ pc[t] = "rs_unlock_urls" => (urls_lock = t /\ FrontierEmpty)
    /\ pc[t] = "rs_unlock_links" => (links_lock = t /\ LinksEmpty)

\* a reset that found content in both groups has cleared both
C4_Witness ==
  \E t \in Threads :
    /\ pc[t] = "rs_unlock_links"
    /\ loc[t].outcome = "cleared"
    /\ loc[t].ret = <<"cleared">>

\* C5 (as stated): in every reachable state the source of every edge of
\* all_links is listed in source_pages[target].
C5_EdgeSourcesIndexed ==
  \A i \in DOMAIN all_links :
    InSeq(all_links[i].source_url,
          SourcePagesOf(source_pages, all_links[i].target_url))

\* C5 (amended): the same, in every state in which no reset is between its
\* two critical sections, provided no reset has run while a
\* collect_all_links call was in flight.
C5_IndexedUnlessResetInterferes ==
  (~resetRaced /\ \A t \in Threads : ~ResetHalfDone(t)) => C5_EdgeSourcesIndexed

\* edges are recorded and a reset is about to start, none having raced
C5_Witness ==
  /\ ~resetRaced
  /\ all_links # <<>>
  /\ \E t \in Threads : pc[t] = "rs_lock_urls"

\* C6: the caller's eligibility predicate never runs while its thread holds
\* urls_lock or links_lock.
C6_NoCallerCodeUnderLock ==
  \A t \in Threads :
    pc[t] = "el_callback" => (urls_lock # t /\ links_lock # t)

WaitsForUrls(t) ==
  pc[t] \in {"el_lock", "au_lock", "mv_lock", "gn_lock", "gs_lock", "gsp_lock",
             "cal_lock_urls", "rs_lock_urls"}

WaitsForLinks(t) == pc[t] \in {"cal_lock_links", "uls_lock", "rs_lock_links"}

FrontierOps ==
  {"extract_links", "add_url", "mark_visited", "get_next_url", "get_stats",
   "get_source_pages"}

\* C7 (as stated): collect_all_links acquires only links_lock, so it never
\* holds urls_lock and is never kept waiting by a holder of urls_lock.
C7_CollectNeverUsesUrlsLock ==
  \A t \in Threads :
    InCollect(t) => /\ urls_lock # t
                    /\ ~(pc[t] = "cal_lock_urls" /\ urls_lock # Free)

\* C7 (amended): extract_links and the other frontier operations acquire
\* only urls_lock and are never delayed by a holder of links_lock;
\* collect_all_links acquires urls_lock for its source_pages update
\* (lines 120-124), releases it, and then acquires links_lock, so a holder of
\* urls_lock can delay collect_all_links.
C7_LockUseByOperation ==
  \A t \in Threads :
    /\ loc[t].op \in FrontierOps => (links_lock # t /\ ~WaitsForLinks(t))
    /\ loc[t].op = "update_link_statuses" => (urls_lock # t /\ ~WaitsForUrls(t))
    /\ InCollect(t) => /\ urls_lock = t <=> pc[t] = "cal_unlock_urls"
                       /\ links_lock = t <=> pc[t] = "cal_unlock_links"

\* collect_all_links waits for urls_lock while extract_links holds it
C7_Witness ==
  \E t, o \in Threads :
    /\ pc[t] = "cal_lock_urls"
    /\ urls_lock = o
    /\ loc[o].op = "extract_links"

\* C8: no thread ever holds urls_lock and links_lock together, and a thread
\* waiting for a lock waits for a holder that is not itself waiting for a
\* lock, so the workers never all wait on each other.
C8_NoLockNesting ==
  /\ ~(urls_lock # Free /\ urls_lock = links_lock)
  /\ \A t \in Threads :
       /\ urls_lock = t => ~(WaitsForUrls(t) \/ WaitsForLinks(t))
       /\ links_lock = t => ~(WaitsForUrls(t) \/ WaitsForLinks(t))
       /\ (WaitsForUrls(t) /\ urls_lock # Free) => pc[urls_lock] # "idle"
       /\ (WaitsForLinks(t) /\ links_lock # Free) => pc[links_lock] # "idle"

\* both locks are held, by different workers, in collect_all_links and reset
C8_Witness ==
  \E t, o \in Threads :
    /\ t # o
    /\ urls_lock = t
    /\ links_lock = o
    /\ {loc[t].op, loc[o].op} = {"collect_all_links", "reset"}

\* C9: source_pages[target], and what get_source_pages returns, lists each
\* source page recorded for the target since the last reset exactly once, in
\* the order of first recording.
C9_SourcesOnceInFirstSeenOrder ==
  /\ \A target \in URLs :
       LET s == SourcePagesOf(source_pages, target)
       IN  /\ SeqToSet(s) = { src \in URLs : firstRec[<<target, src>>] > 0 }
           /\ \A i \in DOMAIN s : firstRec[<<target, s[i]>>] = i
  /\ DOMAIN source_pages \subseteq URLs
  /\ \A t \in Threads :
       pc[t] = "gsp_unlock" =>
         /\ \A i \in DOMAIN loc[t].ret : firstRec[<<loc[t].url, loc[t].ret[i]>>] = i
         /\ Len(loc[t].ret) = Cardinality({ src \in URLs : firstRec[<<loc[t].url, src>>] > 0 })

\* a page already listed for a target that has two sources is recorded again
C9_Witness ==
  \E t \in Threads :
    /\ pc[t] \in {"cal_unlock_urls"}
    /\ loc[t].outcome = "known source"
    /\ Len(SourcePagesOf(source_pages, loc[t].link_data.target_url)) = 2

EdgeIndexOf(source_url, target_url) ==
  { i \in DOMAIN all_links :
      all_links[i].source_url = source_url /\ all_links[i].target_url = target_url }

\* C10: all_links holds at most one edge per (source_url, target_url), the
\* edge keeps the anchor_text, placement and link_path of the first
\* recording, and recording a pair again leaves all_links and links_set
\* unchanged.
C10_FirstRecordingWins ==
  /\ [](\A i \in DOMAIN all_links :
          /\ EdgeIndexOf(all_links[i].source_url, all_links[i].target_url) = {i}
          /\ MetaOf(all_links[i]) =
               firstEdge[<<all_links[i].source_url, all_links[i].target_url>>])
  /\ [][\A t \in Threads :
          (/\ pc[t] = "cal_lock_links"
           /\ pc'[t] = "cal_unlock_links"
           /\ firstEdge[<<loc[t].link_data.source_url, loc[t].link_data.target_url>>] # NoMeta)
            => UNCHANGED <<all_links, links_set>>]_vars

\* a recorded pair has just been recorded again with other anchor text
C10_Witness ==
  \E t \in Threads :
    /\ pc[t] = "cal_unlock_links"
    /\ loc[t].outcome = "duplicate"
    /\ EdgeIndexOf(loc[t].link_data.source_url, loc[t].link_data.target_url) # {}
    /\ MetaOf(loc[t].link_data) #
         firstEdge[<<loc[t].link_data.source_url, loc[t].link_data.target_url>>]

\* C11: get_next_url hands the pending entries back in the order in which
\* they were appended, oldest first; on an empty queue it returns None and
\* leaves visited_urls, all_discovered_urls, the queue and source_pages as
\* they were.
C11_FifoAndEmptySignal ==
  /\ [](/\ Len(returned) <= Len(appended)
        /\ \A i \in DOMAIN returned : returned[i] = appended[i])
  /\ [][\A t \in Threads :
          (pc[t] = "gn_lock" /\ pc'[t] = "gn_unlock")
            => IF discovered_urls = <<>>
               THEN /\ loc'[t].ret = <<>>
                    /\ UNCHANGED frontierVars
               ELSE /\ loc'[t].ret = discovered_urls[1]
                    /\ loc'[t].ret # <<>>
                    /\ discovered_urls' = SubSeq(discovered_urls, 2, Len(discovered_urls))]_vars

\* two entries were pending and a call has just handed back the older one
C11_Witness ==
  \E t \in Threads :
    /\ pc[t] = "gn_unlock"
    /\ loc[t].outcome = "pair"
    /\ Len(appended) = 2
    /\ loc[t].ret = appended[1]
    /\ discovered_urls = <<appended[2]>>

\* the call of t is inside extract_links' with block, before the with block is left
InAdmitSection(t) == pc[t] \in {"el_lock", "el_callback"}

\* C15: for every crawlable link extract_links processes, the source page is
\* recorded in source_pages[target] whatever the admission outcome; when
\* admission is refused (target is the current page, is visited, is already
\* discovered, or the callback says no) visited_urls, all_discovered_urls
\* and the pending queue are left as they were.
C15_SourceRecordedRefusalInert ==
  [][\A t \in Threads :
       (InAdmitSection(t) /\ pc'[t] # pc[t])
         => /\ InSeq(loc[t].url, SourcePagesOf(source_pages', loc[t].clean))
            /\ (\/ loc[t].clean = loc[t].url
                \/ loc[t].clean \in visited_urls
                \/ loc[t].clean \in all_discovered_urls
                \/ loc'[t].outcome = "ineligible")
                 => UNCHANGED <<visited_urls, all_discovered_urls, discovered_urls>>]_vars

\* a link to a visited page has been refused and its source page is on record
C15_Witness ==
  \E t \in Threads :
    /\ pc[t] = "el_unlock"
    /\ loc[t].outcome = "visited"
    /\ loc[t].clean # loc[t].url
    /\ loc[t].clean \in visited_urls
    /\ InSeq(loc[t].url, SourcePagesOf(source_pages, loc[t].clean))
    /\ discovered_urls = <<>>

\* the step is reset's clearing of the frontier (lines 280-284)
ResetClearsFrontier ==
  \E t \in Threads : pc[t] = "rs_lock_urls" /\ pc'[t] = "rs_unlock_urls"

\* C16: between resets visited_urls and all_discovered_urls only grow, every
\* URL in the pending queue is in all_discovered_urls, and every get_stats
\* snapshot has pending <= discovered.
C16_SetsGrowQueueWithinDiscovered ==
  /\ [](/\ \A i \in DOMAIN discovered_urls : discovered_urls[i][1] \in all_discovered_urls
        /\ Len(discovered_urls) <= Cardinality(all_discovered_urls)
        /\ \A t \in Threads :
             (pc[t] = "gs_unlock") => loc[t].ret.pending <= loc[t].ret.discovered)
  /\ [][~ResetClearsFrontier
          => /\ visited_urls \subseteq visited_urls'
             /\ all_discovered_urls \subseteq all_discovered_urls']_vars

\* a snapshot taken while the one discovered URL is still pending
C16_Witness ==
  \E t \in Threads :
    /\ pc[t] = "gs_unlock"
    /\ loc[t].ret.pending = 1
    /\ loc[t].ret.discovered = 1
    /\ Len(discovered_urls) = 1

\* the urls of the pending entries
PendingUrls(q) == { q[i][1] : i \in DOMAIN q }

\* C18 as stated: no URL is in visited_urls and pending at the same time, and
\* what get_next_url returns is not in visited_urls when it is returned.
C18_NeverVisitedAndPending ==
  /\ PendingUrls(discovered_urls) \cap visited_urls = {}
  /\ \A t \in Threads :
       (pc[t] = "gn_unlock" /\ loc[t].outcome = "pair") => loc[t].ret[1] \notin visited_urls

\* C18, amended: a visited URL is never appended to the pending queue, so a
\* URL is visited and pending at once only when mark_visited reached it while
\* it was pending; get_next_url hands the oldest entry back without looking
\* at visited_urls.
C18_VisitedOnlyWhilePending ==
  [][/\ \A u \in visited_urls' \cap PendingUrls(discovered_urls') :
          /\ u \in PendingUrls(discovered_urls)
          /\ u \in visited_urls
               \/ \E t \in Threads : /\ pc[t] = "mv_lock" /\ pc'[t] = "mv_unlock"
                                      /\ loc[t].url = u
     /\ \A t \in Threads :
          (pc[t] = "gn_lock" /\ pc'[t] = "gn_unlock" /\ discovered_urls # <<>>)
            => /\ loc'[t].ret = discovered_urls[1]
               /\ UNCHANGED visited_urls]_vars

\* a URL marked visited while pending has been handed back by get_next_url
C18_Witness ==
  \E t \in Threads :
    /\ pc[t] = "gn_unlock"
    /\ loc[t].outcome = "pair"
    /\ loc[t].ret[1] \in visited_urls

\* the status codes that results holds for target
CodesFor(results, target) ==
  { results[k].status_code : k \in { j \in DOMAIN results : results[j].url = target } }

\* C17: update_link_statuses sets target_status of every recorded edge whose
\* target_url is a result URL, to a status code the results hold for it, and
\* changes nothing else: unmatched edges keep their target_status, no edge is
\* added or removed, no other field changes, and a status that has been set
\* is never removed.
C17_OnlyMatchedStatusesChange ==
  [][\A t \in Threads :
       (pc[t] = "uls_lock" /\ pc'[t] = "uls_unlock")
         => /\ Len(all_links') = Len(all_links)
            /\ links_set' = links_set
            /\ UNCHANGED <<frontierVars>>
            /\ \A i \in DOMAIN all_links :
                 LET old == all_links[i]
                     new == all_links'[i]
                     codes == CodesFor(loc[t].results, old.target_url)
                 IN  /\ [new EXCEPT !.target_status = old.target_status] = old
                     /\ IF codes = {} THEN new.target_status = old.target_status
                        ELSE new.target_status \in codes
                     /\ (old.target_status # NoStatus) => (new.target_status # NoStatus)]_vars

\* an update whose results do not hold an edge's target has run, and the
\* edge still has the status it was created with
C17_Witness ==
  \E t \in Threads :
    /\ pc[t] = "uls_unlock"
    /\ loc[t].results # <<>>
    /\ \E i \in DOMAIN all_links :
         /\ CodesFor(loc[t].results, all_links[i].target_url) = {}
         /\ all_links[i].target_status = 200

\* C19: the target_status collect_all_links gives a new edge from a
\* crawl_results collection is the target_status update_link_statuses gives
\* the same edge from the same collection.
C19_CollectAgreesWithUpdate ==
  \A t \in Threads :
    (pc[t] = "cal_lock_urls")
      => UpdatedLinks(<< loc[t].link_data >>, loc[t].results)[1].target_status
           = loc[t].link_data.target_status

\* the (source_url, target_url) pairs of the recorded edges
RecordedPairs(links) == { <<links[i].source_url, links[i].target_url>> : i \in DOMAIN links }

\* C20: the edge identity key is the pair (source_url, target_url): two
\* different pairs never have the same link_key, and a pair that is not yet
\* recorded is never dropped as a duplicate.
C20_KeyIsThePair ==
  /\ \A t \in Threads : \A q \in RecordedPairs(all_links) :
       (pc[t] = "cal_lock_links"
          /\ LinkKey(loc[t].link_data.source_url, loc[t].link_data.target_url)
                = LinkKey(q[1], q[2]))
         => q = <<loc[t].link_data.source_url, loc[t].link_data.target_url>>
  /\ \A t \in Threads :
       (pc[t] = "cal_unlock_links" /\ loc[t].outcome = "duplicate")
         => <<loc[t].link_data.source_url, loc[t].link_data.target_url>>
              \in RecordedPairs(all_links)

\* a domain as the claim compares it: lower-cased, one leading "www." gone
WithoutWww(str) ==
  IF Len(str) >= 4 /\ \A i \in 1 .. 4 : str[i] = Www[i]
  THEN [i \in 1 .. Len(str) - 4 |-> str[i + 4]]
  ELSE str
Compared(domain) == WithoutWww(IF domain = None THEN <<>> ELSE Lower(domain))

\* C14: is_internal is true exactly when the URL's host and the base domain,
\* lower-cased and with one leading "www." removed, are both non-empty and
\* equal; for base domain e the hosts www.e and e classify the same, and
\* with an empty base domain nothing is internal; collect_all_links
\* classifies an edge the same way.
C14_InternalIffSameCleanDomain ==
  (classified # NoCall) =>
    /\ Truthy(classified.ret)
         <=> /\ Compared(classified.netloc) # <<>>
             /\ Compared(base_domain) # <<>>
             /\ Compared(classified.netloc) = Compared(base_domain)
    /\ classified.edge = classified.ret
    /\ (base_domain = <<"e">>)
         => Truthy(IsInternal(Www \o <<"e">>, base_domain))
              /\ Truthy(IsInternal(<<"e">>, base_domain))
    /\ (base_domain \in {None, <<>>}) => ~Truthy(classified.ret)

\* an upper-case www host has been classified internal to a bare lower-case base
C14_Witness ==
  /\ base_domain = <<"e">>
  /\ classified.netloc = <<"W", "W", "W", ".", "E">>
  /\ Truthy(classified.ret)

\* how often the document at url lists url itself as a nested sitemap
SelfLocs(url) ==
  Cardinality({ k \in DOMAIN site.web[url].sitemaps : site.web[url].sitemaps[k] = url })
SelfCycle(url) ==
  /\ site.web[url].fetch = "200"
  /\ Parses(url, site.web[url])
  /\ SelfLocs(url) > 0
  /\ SelfLocs(url) = Len(site.web[url].sitemaps)

\* fetching calls from depth on when every document lists itself k times
RECURSIVE FetchesFrom(_, _)
FetchesFrom(k, depth) ==
  IF depth > max_depth THEN 0 ELSE 1 + k * FetchesFrom(k, depth + 1)

\* C12 as stated: a sitemap index whose nested loc points to itself is parsed
\* with at most max_depth fetching calls.
C12_StopsWithinMaxDepthCalls ==
  /\ (stack # <<>> /\ SelfCycle(stack[1].sitemap_url)) => smHist.fetching <= max_depth
  /\ \A i \in DOMAIN smHist.fetches :
       SelfCycle(sm.sitemap_urls[i]) => smHist.fetches[i] <= max_depth

\* C12, amended: the calls nest at most max_depth deep, the call one level
\* further returns [] without fetching, and discover_sitemaps returns; a
\* document that lists itself k times is fetched 1 + k + ... + k^(max_depth-1)
\* times, max_depth times for k = 1, and its own URLs come back once per
\* fetch.
C12_DepthBoundedCutOffEmpty ==
  /\ [](/\ Len(stack) <= max_depth + 1
        /\ smHist.deepest <= max_depth + 1
        /\ \A k \in DOMAIN stack :
             /\ stack[k].depth = k
             /\ (stack[k].depth > max_depth)
                  => stack[k].at = "enter" /\ stack[k].all_urls = <<>>
        /\ \A i \in DOMAIN smHist.fetches :
             LET url == sm.sitemap_urls[i]
             IN  SelfCycle(url)
                   => /\ smHist.fetches[i] = FetchesFrom(SelfLocs(url), 1)
                      /\ (SelfLocs(url) = 1) => smHist.fetches[i] = max_depth
                      /\ Len(smHist.contrib[i])
                           = smHist.fetches[i] * Len(site.web[url].urls)
                      /\ SeqToSet(smHist.contrib[i]) = SeqToSet(site.web[url].urls))
  /\ <>(sm.pc = "done")

\* /sitemap.xml lists itself once: it was fetched max_depth times and its URL
\* came back max_depth times
C12_Witness ==
  /\ sm.pc = "done"
  /\ site.web[WellKnown[1]].sitemaps = << WellKnown[1] >>
  /\ smHist.fetches[1] = max_depth
  /\ Len(smHist.contrib[1]) = max_depth
  /\ smHist.deepest = max_depth + 1

\* the lists of lists, joined in order
RECURSIVE Flatten(_)
Flatten(lists) == IF lists = <<>> THEN <<>> ELSE Head(lists) \o Flatten(Tail(lists))

\* what robots.txt declares: the values of its sitemap lines, in any case
Declared(robots) ==
  IF robots.fetch # "200" THEN <<>>
  ELSE LET idx == { k \in DOMAIN robots.lines :
                      robots.lines[k].field \in {"sitemap", "Sitemap", "SITEMAP"} }
       IN  IF idx = {} THEN <<>>
           ELSE << robots.lines[CHOOSE k \in idx : TRUE].value >>

\* the failures the claim lists, for the document at url
FetchFails(url) == site.web[url].fetch # "200"
DecompressFails(url) == EndsWithGz(url) /\ ~site.web[url].gz
ParseFails(url) == site.web[url].xml # "ok" \/ (site.web[url].gz /\ ~EndsWithGz(url))

\* the candidates are tried in order, one contribution each
CandidatesInOrder ==
  /\ (sm.pc \notin {"idle", "start"})
       => /\ sm.sitemap_urls = WellKnown \o Declared(site.robots)
          /\ Len(smHist.contrib) = sm.i - 1
          /\ sm.all_urls = Flatten(smHist.contrib)
  /\ (sm.pc = "done") => Len(smHist.contrib) = Len(sm.sitemap_urls)

====
